---- MODULE Spec2Model ----
(***************************************************************************)
(* Model of the trie of trie.go: Trie.Define / Trie.Match over a tree of   *)
(* Nodes.  Go strings are modelled as sequences of one-character strings,  *)
(* so that Split, TrimPrefix, ToLower, fixPath and the fragment grammar    *)
(* of parseNode are computed character by character as the code does.      *)
(***************************************************************************)
EXTENDS Integers, Sequences, FiniteSets, TLC

VARIABLES nodes, ignoreCase, fpr, tsr, defined, last

vars == <<nodes, ignoreCase, fpr, tsr, defined, last>>

\* ------------------------------------------------------------------ bounds
\* Number of <<pattern, node>> registrations on a trie that serves Match calls.
MaxDefines == 2
\* Number of <<pattern, node>> registrations on a trie that is only built.
MaxBuild == 3
\* Number of fragments of the paths handed to Match.
MaxPathFrags == 2

\* ------------------------------------------------------------ Go strings
Slash == "/"
Colon == ":"

\* [0-9A-Za-z_] restricted to the characters that occur in the model.
WordChars == {"a", "b", "A", "B"}

\* unicode.ToLower on one character.
LowerChar(c) == CASE c = "A" -> "a" [] c = "B" -> "b" [] OTHER -> c

\* strings.ToLower
ToLower(s) == [i \in 1..Len(s) |-> LowerChar(s[i])]

\* s[from:] with a 0-based Go index.
From(s, from) == SubSeq(s, from + 1, Len(s))

\* strings.HasPrefix(s, "//")
HasDoubleSlash(s) == Len(s) >= 2 /\ s[1] = Slash /\ s[2] = Slash

\* strings.Contains(s, "//")
ContainsDoubleSlash(s) == \E i \in 1..(Len(s) - 1) : s[i] = Slash /\ s[i + 1] = Slash

\* strings.TrimPrefix(s, "/")
TrimPrefix(s) == IF Len(s) >= 1 /\ s[1] = Slash THEN Tail(s) ELSE s

\* strings.IndexRune(s, c), 0-based, -1 when absent.
IndexRune(s, c) ==
    IF \E i \in 1..Len(s) : s[i] = c
    THEN (CHOOSE i \in 1..Len(s) : s[i] = c /\ \A j \in 1..(i - 1) : s[j] # c) - 1
    ELSE -1

\* strings.Split(s, "/"): always at least one fragment.
RECURSIVE Split(_)
Split(s) ==
    LET k == IndexRune(s, Slash)
    IN  IF k < 0 THEN <<s>>
        ELSE <<SubSeq(s, 1, k)>> \o Split(From(s, k + 1))

\* strings.Join(frags, "/")
RECURSIVE Join(_)
Join(frags) ==
    IF Len(frags) = 0 THEN <<>>
    ELSE IF Len(frags) = 1 THEN frags[1]
    ELSE frags[1] \o <<Slash>> \o Join(Tail(frags))

\* strings.Replace(s, "//", "/", -1): non-overlapping, left to right.
RECURSIVE ReplaceDoubleSlash(_)
ReplaceDoubleSlash(s) ==
    IF Len(s) = 0 THEN <<>>
    ELSE IF HasDoubleSlash(s) THEN <<Slash>> \o ReplaceDoubleSlash(From(s, 2))
    ELSE <<s[1]>> \o ReplaceDoubleSlash(Tail(s))

RECURSIVE fixPath(_)
fixPath(path) ==
    IF ~ContainsDoubleSlash(path) THEN path
    ELSE fixPath(ReplaceDoubleSlash(path))

\* wordReg = "^\w+$"
wordReg(s) == Len(s) >= 1 /\ \A i \in 1..Len(s) : s[i] \in WordChars

\* doubleColonReg = "^::\w*$"
doubleColonReg(s) ==
    /\ Len(s) >= 2
    /\ s[1] = Colon
    /\ s[2] = Colon
    /\ \A i \in 3..Len(s) : s[i] \in WordChars

\* Regular expressions: the texts used in patterns of the model are an
\* optional "^", a run of word characters, an optional "$".
RegexAnchoredStart(re) == Len(re) >= 1 /\ re[1] = "^"
RegexAnchoredEnd(re) == Len(re) >= 1 /\ re[Len(re)] = "$"
RegexBody(re) ==
    SubSeq(re, IF RegexAnchoredStart(re) THEN 2 ELSE 1,
               IF RegexAnchoredEnd(re) THEN Len(re) - 1 ELSE Len(re))

\* regexp.MustCompile(re) does not panic.
RegexCompiles(re) == \A i \in 1..Len(RegexBody(re)) : RegexBody(re)[i] \in WordChars

\* (*Regexp).MatchString
RegexMatchString(re, s) ==
    LET body == RegexBody(re)
        n == Len(body)
    IN  \E i \in 1..(Len(s) + 1) :
            /\ i + n - 1 <= Len(s)
            /\ SubSeq(s, i, i + n - 1) = body
            /\ RegexAnchoredStart(re) => i = 1
            /\ RegexAnchoredEnd(re) => i + n - 1 = Len(s)

\* ------------------------------------------------------------------ Node
\* A *Node is named by its place in the tree, which it keeps for life: the
\* edges from the root down to it, an edge being the key of a literal child
\* or VaryEdge for the dynamic child.
VaryEdge == <<"vary">>
\* t.root
Root == <<>>
\* A nil *Node
Nil == <<<<"nil">>>>
\* A nil *regexp.Regexp; a compiled one is <<text>>.
NilRegex == <<>>

\* &Node{parentNode: parent, literalChildren: map[string]*Node{}}
NewNode(parent) ==
    [pattern |-> <<>>, name |-> <<>>, endpoint |-> FALSE, wildcard |-> FALSE,
     regex |-> NilRegex, parentNode |-> parent, varyChild |-> Nil,
     literalChildren |-> <<>>]

\* m[k] on a map[string]*Node: nil when the key is absent.
MapGet(m, k) == IF k \in DOMAIN m THEN m[k] ELSE Nil

\* m[k] = v
MapSet(m, k, v) == [x \in (DOMAIN m) \cup {k} |-> IF x = k THEN v ELSE m[x]]

\* child.regex.String(), read only when child.regex != nil
RegexString(n) == n.regex[1]

\* The outcome of a step of Define: ok = FALSE is a panic.
Panic(ns) == [ok |-> FALSE, nodes |-> ns, child |-> Nil]
Done(ns, child) == [ok |-> TRUE, nodes |-> ns, child |-> child]

\* ns with the new node `node` in it
AddNode(ns, node, rec) == [n \in (DOMAIN ns) \cup {node} |-> IF n = node THEN rec ELSE ns[n]]

\* literalChildren[key] = node, for a node created by parseNode
AddLiteral(ns, parent, key) ==
    LET node == Append(parent, key)
    IN  Done(AddNode([ns EXCEPT ![parent].literalChildren = MapSet(@, key, node)],
                     node, NewNode(parent)),
             node)

\* The branch `frag[0] == ':'` of parseNode.
parseVary(ns, parent, frag) ==
    LET name0 == From(frag, 1)
    IN  IF Len(name0) = 0 THEN Panic(ns)   \* name[len(name)-1]: index out of range
        ELSE
        LET trailing == name0[Len(name0)]
            index == IndexRune(name0, "(")
            paren == trailing = ")" /\ index > 0
            regex == IF paren THEN SubSeq(name0, index + 2, Len(name0) - 1) ELSE <<>>
            name == IF paren THEN SubSeq(name0, 1, index)
                    ELSE IF trailing # ")" /\ trailing = "*"
                         THEN SubSeq(name0, 1, Len(name0) - 1)
                    ELSE name0
            wildcard == trailing # ")" /\ trailing = "*"
            node == [NewNode(parent) EXCEPT
                        !.name = name, !.wildcard = wildcard,
                        !.regex = IF paren THEN <<regex>> ELSE NilRegex]
            child == ns[parent].varyChild
        IN  IF paren /\ Len(regex) = 0 THEN Panic(ns)
            ELSE IF paren /\ ~RegexCompiles(regex) THEN Panic(ns)
            ELSE IF ~wordReg(name) THEN Panic(ns)
            ELSE IF child # Nil THEN
                IF ns[child].name # name \/ ns[child].wildcard # wildcard THEN Panic(ns)
                ELSE IF ns[child].regex # NilRegex /\ RegexString(ns[child]) # regex
                     THEN Panic(ns)
                ELSE Done(ns, child)
            ELSE Done(AddNode([ns EXCEPT ![parent].varyChild = Append(parent, VaryEdge)],
                              Append(parent, VaryEdge), node),
                      Append(parent, VaryEdge))

parseNode(ns, parent, frag, ic) ==
    LET literalChildren == ns[parent].literalChildren
        unescaped == IF doubleColonReg(frag) THEN From(frag, 1) ELSE frag
        _frag == IF ic THEN ToLower(unescaped) ELSE unescaped
    IN  IF MapGet(literalChildren, _frag) # Nil THEN Done(ns, literalChildren[_frag])
        ELSE IF frag = <<>> THEN AddLiteral(ns, parent, frag)
        ELSE IF doubleColonReg(frag) THEN AddLiteral(ns, parent, _frag)
        ELSE IF frag[1] = Colon THEN parseVary(ns, parent, frag)
        ELSE IF frag[1] \in {"*", "(", ")"} THEN Panic(ns)
        ELSE AddLiteral(ns, parent, _frag)

RECURSIVE defineNode(_, _, _, _)
defineNode(ns, parent, frags, ic) ==
    LET r == parseNode(ns, parent, frags[1], ic)
        rest == Tail(frags)
    IN  IF ~r.ok THEN r
        ELSE IF Len(rest) = 0
             THEN Done([r.nodes EXCEPT ![r.child].endpoint = TRUE], r.child)
        ELSE IF r.nodes[r.child].wildcard THEN Panic(r.nodes)
        ELSE defineNode(r.nodes, r.child, rest, ic)

\* Trie.Define: the tree after the call (also after a panic, which leaves
\* the nodes created for the earlier fragments in place) and the node returned.
TrieDefine(ns, pattern, ic) ==
    IF ContainsDoubleSlash(pattern) THEN Panic(ns)
    ELSE
    LET r == defineNode(ns, Root, Split(TrimPrefix(pattern)), ic)
    IN  IF ~r.ok THEN r
        ELSE IF r.nodes[r.child].pattern = <<>>
             THEN Done([r.nodes EXCEPT ![r.child].pattern = pattern], r.child)
        ELSE r

\* ----------------------------------------------------------------- Match
\* &Matched{}; a nil Params map and an empty one are the same empty mapping.
EmptyMatched == [Node |-> Nil, Params |-> <<>>, FPR |-> <<>>, TSR |-> <<>>]

\* res.Params[name] = value
ParamSet(params, name, value) == MapSet(params, name, value)

\* matchNode trying the dynamic child before the literal children.
matchNodeVaryFirst(ns, parent, frag) ==
    LET literal == MapGet(ns[parent].literalChildren, frag)
        child == ns[parent].varyChild
    IN  IF child # Nil
           /\ ~(ns[child].regex # NilRegex /\ ~RegexMatchString(RegexString(ns[child]), frag))
        THEN [child |-> child, named |-> TRUE]
        ELSE IF literal # Nil THEN [child |-> literal, named |-> FALSE]
        ELSE [child |-> Nil, named |-> FALSE]

matchNode(ns, parent, frag) ==
    LET literal == MapGet(ns[parent].literalChildren, frag)
        child == ns[parent].varyChild
    IN  IF literal # Nil THEN [child |-> literal, named |-> FALSE]
        ELSE IF child # Nil
             THEN IF ns[child].regex # NilRegex
                     /\ ~RegexMatchString(RegexString(ns[child]), frag)
                  THEN [child |-> Nil, named |-> FALSE]
                  ELSE [child |-> child, named |-> TRUE]
        ELSE [child |-> Nil, named |-> FALSE]

\* The loop of Trie.Match from its iteration i (1-based) on.  `missed` is the
\* `node == nil` exit at iteration `at`; otherwise the loop ended, by
\* exhaustion or by the break at a wildcard.  `steps` lists, for every
\* iteration run, the parent, the fragment as it appears in the path, the
\* fragment handed to matchNode and what matchNode returned.
RECURSIVE matchLoop(_, _, _, _, _, _, _)
matchLoop(ns, ic, frags, i, parent, params, steps) ==
    IF i > Len(frags)
    THEN [missed |-> FALSE, at |-> i, parent |-> parent, params |-> params, steps |-> steps]
    ELSE
    LET frag == frags[i]
        _frag == IF ic THEN ToLower(frag) ELSE frag
        m == matchNode(ns, parent, _frag)
        step == [parent |-> parent, frag |-> frag, _frag |-> _frag,
                 child |-> m.child, named |-> m.named]
        steps1 == Append(steps, step)
    IN  IF m.child = Nil
        THEN [missed |-> TRUE, at |-> i, parent |-> parent, params |-> params,
              steps |-> steps1]
        ELSE IF m.named
        THEN IF ns[m.child].wildcard
             THEN [missed |-> FALSE, at |-> i, parent |-> m.child,
                   params |-> ParamSet(params, ns[m.child].name, Join(From(frags, i - 1))),
                   steps |-> steps1]
             ELSE matchLoop(ns, ic, frags, i + 1, m.child,
                            ParamSet(params, ns[m.child].name, frag), steps1)
        ELSE matchLoop(ns, ic, frags, i + 1, m.child, params, steps1)

\* res.TSR = target; if t.fpr && path != _path { res.FPR = res.TSR; res.TSR = "" }
redirectKeepsTSR(res, f, changed, target) ==
    IF f /\ changed
    THEN [res EXCEPT !.FPR = target, !.TSR = target]
    ELSE [res EXCEPT !.TSR = target]

redirect(res, f, changed, target) ==
    IF f /\ changed
    THEN [res EXCEPT !.FPR = target]
    ELSE [res EXCEPT !.TSR = target]

\* What Trie.Match(_path) returns, with the iterations of its loop.
TrieMatch(ns, ic, f, t, _path) ==
    LET path == IF f THEN fixPath(_path) ELSE _path
        frags == Split(TrimPrefix(path))
        w == matchLoop(ns, ic, frags, 1, Root, <<>>, <<>>)
        res == [EmptyMatched EXCEPT !.Params = w.params]
        out ==
            IF w.missed
            THEN IF t /\ frags[w.at] = <<>> /\ Len(frags) = w.at /\ ns[w.parent].endpoint
                 THEN redirect(res, f, path # _path, SubSeq(path, 1, Len(path) - 1))
                 ELSE res
            ELSE IF ns[w.parent].endpoint
                 THEN IF f /\ path # _path
                      THEN [res EXCEPT !.FPR = path]
                      ELSE [res EXCEPT !.Node = w.parent]
            ELSE IF t /\ MapGet(ns[w.parent].literalChildren, <<>>) # Nil
                 THEN redirect(res, f, path # _path, path \o <<Slash>>)
            ELSE res
    IN  [res |-> out, steps |-> w.steps, parent |-> w.parent]

\* ---------------------------------------------------------------- inputs
\* "/" + the fragments joined by "/"
Pat(frags) == <<Slash>> \o Join(frags)

\* Fragments of registration patterns.
fLit == <<"A">>
fLower == <<"a">>
fNamed == <<":", "A">>
fOther == <<":", "B">>
fEscaped == <<":", ":", "A">>
fCatchAll == <<":", "A", "*">>
fRegex == <<":", "A", "(", "^", "A", "$", ")">>
fEmptyRegex == <<":", "A", "(", ")">>
fStar == <<"*", "A">>

\* The patterns handed to Define: "/", "/A", "/:A", "/::A", "/:A*",
\* "/:A(^A$)", "/A/", "/:A/".
Patterns ==
    { Pat(<<<<>>>>), Pat(<<fLit>>), Pat(<<fNamed>>), Pat(<<fEscaped>>),
      Pat(<<fCatchAll>>), Pat(<<fRegex>>), Pat(<<fLit, <<>>>>), Pat(<<fNamed, <<>>>>) }

\* The patterns handed to Define on a trie that is only built: also "/a",
\* "/:B", "/:A/A", and the malformed "/:A*/A", "/:A()", "/*A", "/:", "/A//A".
BuildPatterns ==
    Patterns \cup
    { Pat(<<fLower>>), Pat(<<fOther>>), Pat(<<fNamed, fLit>>), Pat(<<fCatchAll, fLit>>),
      Pat(<<fEmptyRegex>>), Pat(<<fStar>>), Pat(<<<<Colon>>>>), Pat(<<fLit, <<>>, fLit>>) }

\* Fragments of request paths; the letter is upper-case, so that case
\* folding changes it.
PathFragPool == {<<>>, <<"A">>, <<":", "A">>}

RECURSIVE FragSeqs(_)
FragSeqs(n) ==
    IF n = 0 THEN {<<>>}
    ELSE {Append(s, f) : s \in FragSeqs(n - 1), f \in PathFragPool}

\* The paths handed to Match: "/" followed by one to MaxPathFrags fragments
\* joined by "/".
Paths == {Pat(frags) : frags \in UNION {FragSeqs(n) : n \in 1..MaxPathFrags}}

\* ----------------------------------------------------------------- state
\* nodes      the tree: a function from the *Node values to what they point at
\* ignoreCase, fpr, tsr   the fields of Trie set by New
\* defined    the <<pattern, node>> pairs of the Define calls that returned
\* last       the last call, its argument and what it returned
NoCall == [op |-> "New", arg |-> <<>>, ok |-> TRUE, node |-> Nil,
           res |-> EmptyMatched, steps |-> <<>>]

\* New(Options{...})
Init ==
    /\ nodes = AddNode(<<>>, Root, NewNode(Nil))
    /\ ignoreCase \in BOOLEAN
    /\ fpr \in BOOLEAN
    /\ tsr \in BOOLEAN
    /\ defined = {}
    /\ last = NoCall

\* t.Define(pattern), on a trie with fewer than `cap` registrations
DefineCall(pattern, cap) ==
    /\ Cardinality(defined) < cap
    /\ LET r == TrieDefine(nodes, pattern, ignoreCase)
       IN  /\ nodes' = r.nodes
           /\ defined' = IF r.ok THEN defined \cup {<<pattern, r.child>>} ELSE defined
           /\ last' = [NoCall EXCEPT !.op = "Define", !.arg = pattern,
                                     !.ok = r.ok, !.node = r.child]
    /\ UNCHANGED <<ignoreCase, fpr, tsr>>

Define(pattern) == DefineCall(pattern, MaxDefines)

Build(pattern) == DefineCall(pattern, MaxBuild)

\* t.Match(path) with a lookup of parent.literalChildren[""] that stores an
\* entry for the missing key.
MatchStoring(path) ==
    /\ LET m == TrieMatch(nodes, ignoreCase, fpr, tsr, path)
           looked == ~nodes[m.parent].endpoint /\ tsr
       IN  /\ last' = [NoCall EXCEPT !.op = "Match", !.arg = path,
                                     !.res = m.res, !.steps = m.steps]
           /\ nodes' = IF looked /\ <<>> \notin DOMAIN nodes[m.parent].literalChildren
                       THEN [nodes EXCEPT ![m.parent].literalChildren = MapSet(@, <<>>, Nil)]
                       ELSE nodes
    /\ UNCHANGED <<ignoreCase, fpr, tsr, defined>>

\* t.Match(path)
Match(path) ==
    /\ LET m == TrieMatch(nodes, ignoreCase, fpr, tsr, path)
       IN  last' = [NoCall EXCEPT !.op = "Match", !.arg = path,
                                  !.res = m.res, !.steps = m.steps]
    /\ UNCHANGED <<nodes, ignoreCase, fpr, tsr, defined>>

Next ==
    \/ \E pattern \in Patterns : Define(pattern)
    \/ \E path \in Paths : Match(path)

Spec == Init /\ [][Next]_vars

\* A trie that is only built: Define calls and nothing else.
NextBuild == \E pattern \in BuildPatterns : Build(pattern)

SpecBuild == Init /\ [][NextBuild]_vars

\* ------------------------------------------------- the pattern grammar
\* The grammar of one fragment, read off the fragment alone.
IsEscapedFrag(f) == doubleColonReg(f)
IsDynamicFrag(f) == Len(f) >= 1 /\ f[1] = Colon /\ ~IsEscapedFrag(f)
FragCatchAll(f) == f[Len(f)] = "*"
FragHasRegex(f) == f[Len(f)] = ")"
\* the name: what follows ":" up to "(", "*" or the end
FragName(f) ==
    LET stop == {i \in 2..Len(f) : f[i] \in {"(", "*"}}
        end == IF stop = {} THEN Len(f) ELSE (CHOOSE i \in stop : \A j \in stop : i <= j) - 1
    IN  SubSeq(f, 2, end)
\* the text between the first "(" and the final ")", <<>> when there is none
FragRegex(f) ==
    IF FragHasRegex(f) THEN SubSeq(f, IndexRune(f, "(") + 2, Len(f) - 1) ELSE <<>>
\* the fragments of a pattern
PatternFrags(pattern) == Split(TrimPrefix(pattern))

\* The nodes from the child of the root down to n, following parentNode.
RECURSIVE Chain(_, _)
Chain(ns, n) == IF n = Root \/ n = Nil THEN <<>> ELSE Append(Chain(ns, ns[n].parentNode), n)

\* C10: a successful Define resolves every `:name`, `:name*`, `:name(EXPR)`
\* fragment of its pattern to the dynamic child of the node above it, and
\* every literal or `::`-escaped fragment to a literal child with empty name.
C10_FragmentKindByFragment ==
    (last.op = "Define" /\ last.ok) =>
        LET frags == PatternFrags(last.arg)
            chain == Chain(nodes, last.node)
        IN  /\ Len(chain) = Len(frags)
            /\ \A i \in 1..Len(frags) :
                LET n == chain[i]
                    parent == nodes[n].parentNode
                IN  IF IsDynamicFrag(frags[i])
                    THEN /\ nodes[n].name = FragName(frags[i])
                         /\ nodes[n].name # <<>>
                         /\ nodes[parent].varyChild = n
                    ELSE /\ nodes[n].name = <<>>
                         /\ \E k \in DOMAIN nodes[parent].literalChildren :
                                nodes[parent].literalChildren[k] = n

\* C4: every pattern that was defined through a dynamic child agrees with
\* that child on the name, the catch-all flag and the regex text, so a Define
\* with a different dynamic spec at that position must have failed.
C4_ConflictingDynamicRejected ==
    \A d \in defined :
        LET frags == PatternFrags(d[1])
            chain == Chain(nodes, d[2])
        IN  \A i \in 1..Len(frags) :
                (IsDynamicFrag(frags[i]) /\ nodes[chain[i]].name # <<>>) =>
                    /\ nodes[chain[i]].name = FragName(frags[i])
                    /\ nodes[chain[i]].wildcard = FragCatchAll(frags[i])
                    /\ nodes[chain[i]].regex =
                          (IF FragHasRegex(frags[i]) THEN <<FragRegex(frags[i])>> ELSE NilRegex)

\* C5: a successful Define of a pattern that an earlier Define already
\* returned a node for returns that same node, adds no node and changes no
\* endpoint flag.
C5_DefineIdempotent ==
    [][ (last'.op = "Define" /\ last'.ok) =>
            \A d \in defined :
                d[1] = last'.arg =>
                    /\ last'.node = d[2]
                    /\ DOMAIN nodes' = DOMAIN nodes
                    /\ \A n \in DOMAIN nodes : nodes'[n].endpoint = nodes[n].endpoint ]_vars

\* Outcomes of the last Match call.
Matched == last.op = "Match" /\ last.res.Node # Nil
RedirectedFPR == last.op = "Match" /\ last.res.FPR # <<>>
RedirectedTSR == last.op = "Match" /\ last.res.TSR # <<>>
Missed == last.op = "Match" /\ last.res.Node = Nil /\ last.res.FPR = <<>> /\ last.res.TSR = <<>>

\* C2: the result of Match has at most one of Node, FPR, TSR set.
C2_ExclusiveOutcomes ==
    last.op = "Match" =>
        /\ ~(Matched /\ RedirectedFPR)
        /\ ~(Matched /\ RedirectedTSR)
        /\ ~(RedirectedFPR /\ RedirectedTSR)

\* A Match on a path with duplicate separators whose collapsed form also
\* needs a trailing separator added or removed: reported as FPR alone.
C2_FixedAndTrailing ==
    /\ RedirectedFPR
    /\ fpr /\ tsr
    /\ last.res.FPR # fixPath(last.arg)

\* C3: a redirect target differs from the requested path and Match on it
\* returns a node.
C3_RedirectReachesEndpoint ==
    (RedirectedFPR \/ RedirectedTSR) =>
        LET target == IF RedirectedFPR THEN last.res.FPR ELSE last.res.TSR
            again == TrieMatch(nodes, ignoreCase, fpr, tsr, target).res
        IN  /\ target # last.arg
            /\ again.Node # Nil

\* A step of the walk that went through a plain `:name` child.
PlainNamed(step) ==
    /\ step.named
    /\ ~nodes[step.child].wildcard
    /\ nodes[step.child].regex = NilRegex

\* C6: the walk never takes an empty fragment through a plain `:name` child,
\* so no matched node comes with a plain parameter bound to "".
C6_PlainNamedNonEmpty ==
    last.op = "Match" =>
        \A k \in 1..Len(last.steps) :
            PlainNamed(last.steps[k]) => last.steps[k].frag # <<>>

\* C8: where the walk consults a regex child, the child accepts exactly when
\* the fragment as it appears in the path satisfies the regex, whatever
\* IgnoreCase is, and the value bound is the fragment as it appears in the path.
C8_RegexOnOriginalCase ==
    last.op = "Match" =>
        \A k \in 1..Len(last.steps) :
            LET step == last.steps[k]
                child == nodes[step.parent].varyChild
            IN  (/\ MapGet(nodes[step.parent].literalChildren, step._frag) = Nil
                 /\ child # Nil
                 /\ nodes[child].regex # NilRegex) =>
                    /\ (step.child # Nil) = RegexMatchString(RegexString(nodes[child]), step.frag)
                    /\ (step.child # Nil /\ k = Len(last.steps)) =>
                            last.res.Params[nodes[child].name] = step.frag

\* C9: a result with no node and no redirect has no parameters either.
C9_MissIsAllEmpty == Missed => DOMAIN last.res.Params = {}

\* ------------------------------------------------------------ round trip
\* The fragments of the path the last call was made on.
PathFrags(path) == Split(TrimPrefix(path))

\* No fragment of the pattern is a catch-all.
NoCatchAll(frags) ==
    \A i \in 1..Len(frags) : IsDynamicFrag(frags[i]) => ~FragCatchAll(frags[i])

\* v is a value for the parameter fragment f: non-empty, without a separator,
\* and satisfying the regex of f if it has one.
ValueFor(f, v) ==
    /\ v # <<>>
    /\ \A i \in 1..Len(v) : v[i] # Slash
    /\ FragHasRegex(f) => RegexMatchString(FragRegex(f), v)

\* pf is obtained from the pattern's fragments by replacing each parameter
\* fragment with a value for it and leaving every other fragment as it is.
Substituted(frags, pf) ==
    /\ Len(pf) = Len(frags)
    /\ \A i \in 1..Len(frags) :
        IF IsDynamicFrag(frags[i]) THEN ValueFor(frags[i], pf[i]) ELSE pf[i] = frags[i]

\* The parameter map of a substitution: each name with the value substituted
\* for it (for its last occurrence).
Bindings(frags, pf) ==
    LET dyn == {i \in 1..Len(frags) : IsDynamicFrag(frags[i])}
        lastOf(name) == CHOOSE i \in dyn :
                            /\ FragName(frags[i]) = name
                            /\ \A j \in dyn : FragName(frags[j]) = name => j <= i
    IN  [name \in {FragName(frags[i]) : i \in dyn} |-> pf[lastOf(name)]]

Unescaped(f) == IF IsEscapedFrag(f) THEN From(f, 1) ELSE f

\* The fragment as Match looks it up.
Folded(v) == IF ignoreCase THEN ToLower(v) ELSE v

\* pf is obtained from the fragments of a pattern defined as `chain`: escaped
\* fragments are written without their first colon, parameter fragments were
\* resolved to dynamic children and are replaced with values that are not
\* the key of a literal sibling and satisfy the regex as looked up.
SubstitutedClear(frags, chain, pf) ==
    /\ Len(pf) = Len(frags)
    /\ \A i \in 1..Len(frags) :
        IF IsDynamicFrag(frags[i])
        THEN /\ ValueFor(frags[i], pf[i])
             /\ nodes[chain[i]].name # <<>>
             /\ MapGet(nodes[nodes[chain[i]].parentNode].literalChildren, Folded(pf[i])) = Nil
             /\ FragHasRegex(frags[i]) => RegexMatchString(FragRegex(frags[i]), Folded(pf[i]))
        ELSE pf[i] = Unescaped(frags[i])

====
